---------------------------- MODULE Spec2Model ----------------------------
(***************************************************************************)
(* Model of blacksheep.server.gzip: GzipMiddleware and                     *)
(* use_gzip_compression.                                                   *)
(*                                                                         *)
(* Python values are records tagged with their type: None, bytes, str.     *)
(* Byte strings and text strings are sequences of one-character strings;   *)
(* response bodies are sequences of byte values.                           *)
(***************************************************************************)
EXTENDS Integers, Sequences, FiniteSets, TLC

\* ------------------------------------------------------------------ bounds

\* Longest body a route handler produces.
MaxBody == 2

\* Longest app.middlewares list.
MaxChain == 2

\* Most compressions still running on a worker after their request was
\* cancelled.
MaxOrphans == 1

\* Most requests in flight at once (call slots).
MaxCalls == 2

\* ------------------------------------------------------------ Python values

None == [t |-> "None"]
B(s) == [t |-> "bytes", v |-> s]
S(s) == [t |-> "str", v |-> s]

IsNone(x) == x.t = "None"

\* Python truthiness of None / bytes / str: None and empty strings are falsy.
Truthy(x) == x.t # "None" /\ x.v # <<>>

\* Python `a or b`.
PyOr(a, b) == IF Truthy(a) THEN a ELSE b

UpperChars == <<"A", "B", "C", "D", "E", "F", "G", "H", "I", "J", "K", "L", "M",
                "N", "O", "P", "Q", "R", "S", "T", "U", "V", "W", "X", "Y", "Z">>
LowerChars == <<"a", "b", "c", "d", "e", "f", "g", "h", "i", "j", "k", "l", "m",
                "n", "o", "p", "q", "r", "s", "t", "u", "v", "w", "x", "y", "z">>

LowerChar(c) ==
    IF \E i \in 1..26 : UpperChars[i] = c
    THEN LowerChars[CHOOSE i \in 1..26 : UpperChars[i] = c]
    ELSE c

\* bytes.lower() / str.lower() on the character sequence.
LowerSeq(s) == [i \in 1..Len(s) |-> LowerChar(s[i])]

\* Whether sequence a occurs in sequence b as a contiguous run.
IsSubSeq(a, b) ==
    \E k \in 0..(Len(b) - Len(a)) : \A i \in 1..Len(a) : b[k + i] = a[i]

\* Python `a in b` for b a bytes or str value.  needle and haystack of the
\* same type: substring test.  Mixed bytes/str, or a None needle: TypeError.
PyIn(a, b) ==
    IF a.t = b.t /\ a.t \in {"bytes", "str"}
    THEN [exc |-> "none", val |-> IsSubSeq(a.v, b.v)]
    ELSE [exc |-> "TypeError", val |-> FALSE]

DigitChars == <<"0", "1", "2", "3", "4", "5", "6", "7", "8", "9">>

\* str(n): the decimal digits of a natural number, most significant first.
RECURSIVE Decimal(_)
Decimal(n) ==
    IF n < 10 THEN <<DigitChars[n + 1]>>
    ELSE Decimal(n \div 10) \o <<DigitChars[(n % 10) + 1]>>

\* ------------------------------------------------------------------- codec

\* gzip accepts the levels -1..9; any other level makes zlib raise.
ValidLevel(level) == level \in (-1)..9

\* Run-length pairs <<count, byte>> of a byte sequence.
RECURSIVE RunLength(_)
RunLength(body) ==
    IF body = <<>> THEN <<>>
    ELSE LET n == CHOOSE k \in 1..Len(body) :
                      /\ \A i \in 1..k : body[i] = body[1]
                      /\ (k = Len(body) \/ body[k + 1] # body[1])
         IN  <<n, body[1]>> \o RunLength(SubSeq(body, n + 1, Len(body)))

\* The gzip extra-flags byte written for a compression level.
ExtraFlags(level) == IF level = 9 THEN 2 ELSE IF level = 1 THEN 4 ELSE 0

\* gzip.compress(body, level): magic, method, extra flags, the deflated
\* payload and the trailing input size.
GzipCompress(body, level) ==
    <<31, 139, 8, ExtraFlags(level)>> \o RunLength(body) \o <<Len(body) % 256>>

RECURSIVE Expand(_)
Expand(pairs) ==
    IF Len(pairs) < 2 THEN <<>>
    ELSE [i \in 1..pairs[1] |-> pairs[2]] \o Expand(SubSeq(pairs, 3, Len(pairs)))

\* gzip.decompress(data): the payload expanded; <<"error">> when data is not
\* a well-formed member.
GzipDecompress(data) ==
    IF Len(data) >= 5 /\ data[1] = 31 /\ data[2] = 139 /\ data[3] = 8
       /\ (Len(data) - 5) % 2 = 0
    THEN LET out == Expand(SubSeq(data, 5, Len(data) - 1))
         IN  IF Len(out) % 256 = data[Len(data)] THEN out ELSE <<"error">>
    ELSE <<"error">>

\* ----------------------------------------------------- requests, responses

AcceptEncoding == <<"a", "c", "c", "e", "p", "t", "-", "e", "n", "c", "o", "d", "i", "n", "g">>
AcceptEncodingTitle == <<"A", "c", "c", "e", "p", "t", "-", "E", "n", "c", "o", "d", "i", "n", "g">>
ContentEncoding == <<"c", "o", "n", "t", "e", "n", "t", "-", "e", "n", "c", "o", "d", "i", "n", "g">>
ContentLength == <<"c", "o", "n", "t", "e", "n", "t", "-", "l", "e", "n", "g", "t", "h">>
Gzip == <<"g", "z", "i", "p">>
GzipDeflate == <<"g", "z", "i", "p", ",", " ", "d", "e", "f", "l", "a", "t", "e">>
UpperGzipDeflate == <<"G", "Z", "I", "P", ",", " ", "d", "e", "f", "l", "a", "t", "e">>
Brotli == <<"b", "r">>
ETag == <<"e", "t", "a", "g">>
EntityTag == <<"v", "1">>

ApplicationJson == <<"a", "p", "p", "l", "i", "c", "a", "t", "i", "o", "n", "/", "j", "s", "o", "n">>
TextHtmlUpper == <<"T", "E", "X", "T", "/", "H", "T", "M", "L">>
ImagePng == <<"i", "m", "a", "g", "e", "/", "p", "n", "g">>

\* Characters are compared without regard to case in header names.
SameName(a, b) == LowerSeq(a) = LowerSeq(b)

\* Headers.get_single(name): the first value stored under the name, compared
\* case-insensitively, or None when there is none.
get_single(headers, name) ==
    IF \E k \in 1..Len(headers) : SameName(headers[k][1], name)
    THEN B(headers[CHOOSE k \in 1..Len(headers) :
                      /\ SameName(headers[k][1], name)
                      /\ \A j \in 1..(k - 1) : ~SameName(headers[j][1], name)][2])
    ELSE None

\* Every value stored under the name, in order.
get_all(headers, name) ==
    LET F[k \in 0..Len(headers)] ==
            IF k = 0 THEN <<>>
            ELSE IF SameName(headers[k][1], name)
                 THEN Append(F[k - 1], headers[k][2])
                 ELSE F[k - 1]
    IN  F[Len(headers)]

\* The headers without those stored under the name.
remove_header(headers, name) ==
    LET F[k \in 0..Len(headers)] ==
            IF k = 0 THEN <<>>
            ELSE IF SameName(headers[k][1], name)
                 THEN F[k - 1]
                 ELSE Append(F[k - 1], headers[k])
    IN  F[Len(headers)]

\* Response.add_header(name, value): appends, keeping what is there.
add_header(response, name, value) ==
    [response EXCEPT !.headers = Append(@, <<name, value>>)]

\* Response.set_header(name, value): replaces what is stored under the name.
set_header(response, name, value) ==
    [response EXCEPT !.headers = Append(remove_header(@, name), <<name, value>>)]

\* Content(content_type, data).
Content(content_type, data) ==
    [t |-> "Content", type |-> content_type, body |-> data]

\* Response.with_content(content): the new content, and the content-length
\* the transport will send set to the decimal length of its body.
with_content(response, content) ==
    IF IsNone(content.body)
    THEN [response EXCEPT !.content = content]
    ELSE set_header([response EXCEPT !.content = content],
                    ContentLength, Decimal(Len(content.body.v)))

\* ensure_response(result): a handler's None or Response is passed on.
ensure_response(result) == result

Response(headers, content) ==
    [t |-> "Response", headers |-> headers, content |-> content]

\* A request with no headers object, with headers lacking accept-encoding,
\* asking for gzip, asking for other encodings only, and with an empty value.
Requests ==
    { [headers |-> None],
      [headers |-> [t |-> "Headers", v |-> <<>>]],
      [headers |-> [t |-> "Headers", v |-> << <<AcceptEncodingTitle, GzipDeflate>> >>]],
      [headers |-> [t |-> "Headers", v |-> << <<AcceptEncoding, UpperGzipDeflate>> >>]],
      [headers |-> [t |-> "Headers", v |-> << <<AcceptEncoding, <<>> >> >>]] }

ByteVals == {0}

Bodies ==
    {None} \cup { B(b) : b \in UNION { [1..n -> ByteVals] : n \in 0..MaxBody } }

ContentTypes == {None, B(ApplicationJson), B(TextHtmlUpper), B(ImagePng)}

\* What a route handler returns: nothing, a response without content, a
\* response constructed around its content, or a response that carries an
\* entity tag, declares an encoding of its own and was given its content
\* afterwards.
HandlerResults ==
    {None, Response(<<>>, None)}
    \cup { Response(<<>>, Content(ty, b)) : ty \in ContentTypes, b \in Bodies }
    \cup { with_content(Response(<< <<ETag, EntityTag>>, <<ContentEncoding, Brotli>> >>,
                                 None),
                        Content(ty, b)) : ty \in ContentTypes, b \in Bodies }

\* ------------------------------------------------------------ configuration

Instances == {"m1", "m2"}

\* The executor the caller of the constructor owns, and the ThreadPoolExecutor
\* each instance creates for itself when it is given none.
External == <<"external", "caller">>
OwnPool(i) == <<"own", i>>
Pools == {External} \cup { OwnPool(i) : i \in Instances }

\* GzipMiddleware.handled_types, the list held by the class.
DefaultHandledTypes ==
    [t |-> "list", v |->
    << B(<<"j", "s", "o", "n">>),
       B(<<"x", "m", "l">>),
       B(<<"y", "a", "m", "l">>),
       B(<<"h", "t", "m", "l">>),
       B(<<"t", "e", "x", "t", "/", "p", "l", "a", "i", "n">>),
       B(<<"a", "p", "p", "l", "i", "c", "a", "t", "i", "o", "n", "/", "j", "a", "v", "a", "s", "c", "r", "i", "p", "t">>),
       B(<<"t", "e", "x", "t", "/", "c", "s", "s">>),
       B(<<"t", "e", "x", "t", "/", "c", "s", "v">>) >>]

DefaultMinSize == 500
DefaultCompLevel == 5

\* Constructor arguments tried: thresholds, a valid and an invalid level,
\* the default types, a list given as text and bytes in lower and upper case,
\* or a list with an entry that is neither text nor bytes, an executor or none.
MinSizes == {1}
CompLevels == {DefaultCompLevel, 10}
HandledTypeArgs ==
    { None,
      [t |-> "list", v |-> <<S(<<"p", "n", "g">>), B(<<"h", "t", "m", "l">>),
                             S(<<"J", "S", "O", "N">>)>>],
      [t |-> "list", v |-> <<B(<<"h", "t", "m", "l">>), None>>] }
ExecutorArgs == {None, [t |-> "Executor", id |-> External]}

VARIABLES
    class_handled_types,  \* the list GzipMiddleware.handled_types refers to
    mw,                   \* the GzipMiddleware objects, by instance
    pool,                 \* the executors: created, shut down, and by whom
    tasks,                \* the future each invocation awaits, by slot
    orphans,              \* per executor, the running tasks nobody awaits
    middlewares,          \* app.middlewares
    call                  \* the invocations of __call__ in flight, by slot

vars == <<class_handled_types, mw, pool, tasks, orphans, middlewares, call>>

\* No object under this name yet; once one was disposed of, the executor it
\* held stays on record.
NoPool == <<"none", "none">>
NoInstance ==
    [alive |-> FALSE, min_size |-> 0, comp_level |-> 0, handled_types |-> None,
     executor |-> NoPool, shutdown_executor |-> FALSE]

\* GzipMiddleware._normalize_types(types): text entries become bytes, every
\* other entry is kept as it is.
_normalize_types(types) ==
    [t |-> "list",
     v |-> [k \in 1..Len(types.v) |->
               IF types.v[k].t = "str" THEN B(types.v[k].v) ELSE types.v[k]]]

\* self.handled_types: the instance's own list when __init__ assigned one,
\* the class's list otherwise.
HandledTypes(self) ==
    IF IsNone(self.handled_types) THEN class_handled_types.v
    ELSE self.handled_types.v

\* ---------------------------------------------------------- decision engine

\* any(_type in content_type for _type in types): the first entry found
\* decides, and an entry that cannot be searched for raises before it.
RECURSIVE AnyIn(_, _)
AnyIn(types, content_type) ==
    IF types = <<>> THEN [exc |-> "none", val |-> FALSE]
    ELSE LET r == PyIn(types[1], content_type)
         IN  IF r.exc # "none" \/ r.val THEN r
             ELSE AnyIn(Tail(types), content_type)

\* A defect: the content-type must equal a handled type.
_is_handled_type_exact(self, content_type) ==
    [exc |-> "none",
     val |-> \E k \in 1..Len(HandledTypes(self)) :
                HandledTypes(self)[k] = B(LowerSeq(content_type.v))]

_is_handled_type(self, content_type) ==
    AnyIn(HandledTypes(self), B(LowerSeq(content_type.v)))

is_handled_encoding(request) ==
    IF IsNone(request.headers) THEN [exc |-> "none", val |-> FALSE]
    ELSE PyIn(B(Gzip), PyOr(get_single(request.headers.v, AcceptEncoding), S(<<>>)))

\* A defect: a body of exactly min_size bytes passes.
BodyPassInclusive(self, response) ==
    /\ ~IsNone(response.content.body)
    /\ Len(response.content.body.v) >= self.min_size

BodyPass(self, response) ==
    /\ ~IsNone(response.content.body)
    /\ Len(response.content.body.v) > self.min_size

is_handled_response_content(self, response) ==
    IF IsNone(response) \/ IsNone(response.content)
    THEN [exc |-> "none", val |-> FALSE]
    ELSE LET body_pass == BodyPass(self, response)
             content_type_pass ==
                 IF IsNone(response.content.type)
                 THEN [exc |-> "none", val |-> FALSE]
                 ELSE _is_handled_type(self, response.content.type)
         IN  IF content_type_pass.exc # "none" THEN content_type_pass
             ELSE [exc |-> "none", val |-> body_pass /\ content_type_pass.val]

\* should_handle(request, response): both predicates are evaluated, the
\* encoding one first, and an exception of either is the outcome.
should_handle(self, request, response) ==
    LET e == is_handled_encoding(request)
    IN  IF e.exc # "none" THEN e
        ELSE LET c == is_handled_response_content(self, response)
             IN  IF c.exc # "none" THEN c
                 ELSE [exc |-> "none", val |-> e.val /\ c.val]

\* ------------------------------------------------------------------- state

Slots == 1..MaxCalls

NoTask == [state |-> "none", pool |-> External, body |-> <<>>, level |-> 0,
           result |-> <<>>]

IdleCall ==
    [pc |-> "idle", chain |-> <<>>, lvl |-> 0, request |-> [headers |-> None],
     handled |-> None, response |-> None, exc |-> "none",
     decided |-> FALSE, read_header |-> FALSE, submitted |-> FALSE]

\* Before any middleware exists: only the caller's executor has been created.
InitPools ==
    [p \in Pools |-> [created |-> (p = External), shutdown |-> FALSE, by |-> "none"]]

Init ==
    /\ class_handled_types = DefaultHandledTypes
    /\ mw = [i \in Instances |-> NoInstance]
    /\ pool = InitPools
    /\ tasks = [c \in Slots |-> NoTask]
    /\ orphans = [p \in Pools |-> 0]
    /\ middlewares = <<>>
    /\ call = [c \in Slots |-> IdleCall]

InFlight(c) == call[c].pc \in {"pending", "compressing"}
Occupied(c) == call[c].pc # "idle"

\* The application is serving a request: its chain of middlewares was built
\* from app.middlewares when it started and the list is left alone.
Serving == \E c \in Slots : Occupied(c)

\* Whether the application or a frame of an invocation refers to instance i.
Referenced(i) ==
    \/ \E k \in 1..Len(middlewares) : middlewares[k] = i
    \/ \E c \in Slots : Occupied(c) /\ \E k \in 1..Len(call[c].chain) : call[c].chain[k] = i

PoolHasTasks(p) ==
    \/ orphans[p] > 0
    \/ \E c \in Slots : tasks[c].state # "none" /\ tasks[c].pool = p

RECURSIVE SumOver(_, _)
SumOver(f, D) ==
    IF D = {} THEN 0
    ELSE LET d == CHOOSE x \in D : TRUE IN f[d] + SumOver(f, D \ {d})

OrphanCount == SumOver(orphans, Pools)

\* ---------------------------------------------------- construction, disposal

\* GzipMiddleware.__init__(min_size, comp_level, handled_types, executor).
NewInstance(i, min_size, comp_level, handled_types, executor) ==
    [alive |-> TRUE,
     min_size |-> min_size,
     comp_level |-> comp_level,
     handled_types |-> IF IsNone(handled_types) THEN None
                       ELSE _normalize_types(handled_types),
     executor |-> IF IsNone(executor) THEN OwnPool(i) ELSE executor.id,
     shutdown_executor |-> IsNone(executor)]

\* The pools after __init__: ThreadPoolExecutor() when no executor is given.
PoolsAfterInit(pools, i, executor) ==
    IF IsNone(executor)
    THEN [pools EXCEPT ![OwnPool(i)] =
              [created |-> TRUE, shutdown |-> FALSE, by |-> "none"]]
    ELSE pools

\* An instance name is taken again only once the pool of the object that
\* held it before has no thread left running.
CanConstruct(i) == ~mw[i].alive /\ ~PoolHasTasks(OwnPool(i))

Construct(i, min_size, comp_level, handled_types, executor) ==
    /\ CanConstruct(i)
    /\ mw' = [mw EXCEPT ![i] =
                 NewInstance(i, min_size, comp_level, handled_types, executor)]
    /\ pool' = PoolsAfterInit(pool, i, executor)
    /\ UNCHANGED <<class_handled_types, tasks, orphans, middlewares, call>>

\* use_gzip_compression(app, handler) with a middleware given.
UseGzipCompression(i) ==
    /\ mw[i].alive
    /\ ~Serving
    /\ Len(middlewares) < MaxChain
    /\ middlewares' = Append(middlewares, i)
    /\ UNCHANGED <<class_handled_types, mw, pool, tasks, orphans, call>>

\* use_gzip_compression(app) with handler None: GzipMiddleware() is built
\* with the defaults and appended.
UseGzipCompressionDefault(i) ==
    /\ CanConstruct(i)
    /\ ~Serving
    /\ Len(middlewares) < MaxChain
    /\ mw' = [mw EXCEPT ![i] =
                 NewInstance(i, DefaultMinSize, DefaultCompLevel, None, None)]
    /\ pool' = PoolsAfterInit(pool, i, None)
    /\ middlewares' = Append(middlewares, i)
    /\ UNCHANGED <<class_handled_types, tasks, orphans, call>>

\* Executor.shutdown(cancel_futures=True): no new task is taken and the
\* futures still queued are cancelled; a running one runs on.
ShutdownCancelling(p, who) ==
    /\ pool' = [pool EXCEPT ![p] = [@ EXCEPT !.shutdown = TRUE, !.by = who]]
    /\ tasks' = [c \in Slots |->
                    IF tasks[c].pool = p /\ tasks[c].state = "queued"
                    THEN [tasks[c] EXCEPT !.state = "cancelled"]
                    ELSE tasks[c]]

\* A defect: __del__ shuts down whatever executor the instance holds.
DelShutsDownAlways(self) == TRUE

\* A defect: __del__ leaves every executor running.
DelShutsDownNever(self) == FALSE

\* Whether __del__ shuts the executor down.
DelShutsDown(self) == self.shutdown_executor

\* GzipMiddleware.__del__, run when nothing refers to the object any more.
Dispose(i) ==
    /\ mw[i].alive
    /\ ~Referenced(i)
    /\ IF DelShutsDown(mw[i])
       THEN ShutdownCancelling(mw[i].executor, "middleware")
       ELSE UNCHANGED <<pool, tasks>>
    /\ mw' = [mw EXCEPT ![i] = [NoInstance EXCEPT !.executor = mw[i].executor]]
    /\ UNCHANGED <<class_handled_types, orphans, middlewares, call>>

\* The application customizes an instance in place:
\* instance.handled_types.append(entry).  The attribute resolves to the
\* instance's own list when __init__ assigned one and to the class's list
\* otherwise, and the list it resolves to is the one that grows.
AppendHandledType(i, entry) ==
    /\ mw[i].alive
    /\ \A k \in 1..Len(HandledTypes(mw[i])) : HandledTypes(mw[i])[k] # entry
    /\ IF IsNone(mw[i].handled_types)
       THEN /\ class_handled_types' =
                   [class_handled_types EXCEPT !.v = Append(@, entry)]
            /\ UNCHANGED mw
       ELSE /\ mw' = [mw EXCEPT ![i].handled_types.v = Append(@, entry)]
            /\ UNCHANGED class_handled_types
    /\ UNCHANGED <<pool, tasks, orphans, middlewares, call>>

\* The application object is dropped, and its list of middlewares with it.
AppDropped ==
    /\ middlewares # <<>>
    /\ ~Serving
    /\ middlewares' = <<>>
    /\ UNCHANGED <<class_handled_types, mw, pool, tasks, orphans, call>>

\* The owner of the external executor shuts it down: no new task is taken;
\* those queued are carried out, or cancelled with cancel_futures.
OwnerShutdown(cancel_futures) ==
    /\ ~pool[External].shutdown
    /\ IF cancel_futures
       THEN ShutdownCancelling(External, "owner")
       ELSE /\ pool' = [pool EXCEPT ![External] =
                           [@ EXCEPT !.shutdown = TRUE, !.by = "owner"]]
            /\ UNCHANGED tasks
    /\ UNCHANGED <<class_handled_types, mw, orphans, middlewares, call>>

\* ---------------------------------------------------------------- __call__

\* The chains an invocation may run through: the application's list, or one
\* middleware called directly.
Chains == {middlewares} \cup { <<i>> : i \in { j \in Instances : mw[j].alive } }

\* A request enters the chain: every middleware of it awaits its handler.
CallStart(c, chain, request) ==
    /\ call[c].pc = "idle"
    /\ \A d \in 1..(c - 1) : Occupied(d)
    /\ chain # <<>>
    /\ call' = [call EXCEPT ![c] =
                   [IdleCall EXCEPT !.pc = "pending", !.chain = chain,
                                    !.lvl = Len(chain), !.request = request]]
    /\ UNCHANGED <<class_handled_types, mw, pool, tasks, orphans, middlewares>>

\* A defect: the body is handed over short of its last byte.
SubmittedBodyTruncated(response) ==
    SubSeq(response.content.body.v, 1, Len(response.content.body.v) - 1)

\* The body handed to the worker: response.content.body.
SubmittedBody(response) == response.content.body.v

\* The level handed to the worker: self.comp_level.
SubmittedLevel(self) == self.comp_level

\* A defect: only a missing response returns at once.
ShortCircuitNoneOnly(response) == IsNone(response)

\* `response is None or response.content is None`: __call__ returns at once,
\* without a decision.
ShortCircuit(response) == IsNone(response) \/ IsNone(response.content)

\* __call__ from the handler's return up to its next suspension: the
\* short-circuit, the decision, and the submission to the executor.  A
\* submission to an executor that was shut down raises RuntimeError.
Proceed(c, lvl, result) ==
    LET self == mw[call[c].chain[lvl]]
        response == ensure_response(result)
        frame == [call[c] EXCEPT !.lvl = lvl,
                                 !.handled = result, !.response = response,
                                 !.decided = FALSE, !.read_header = FALSE,
                                 !.submitted = FALSE]
    IN  IF ShortCircuit(response)
        THEN /\ call' = [call EXCEPT ![c] = [frame EXCEPT !.pc = "returned"]]
             /\ UNCHANGED tasks
        ELSE LET sh == should_handle(self, call[c].request, response)
                 seen == [frame EXCEPT !.decided = TRUE,
                             !.read_header = ~IsNone(call[c].request.headers)]
             IN  IF sh.exc # "none"
                 THEN /\ call' = [call EXCEPT ![c] =
                                     [seen EXCEPT !.pc = "raised", !.exc = sh.exc]]
                      /\ UNCHANGED tasks
                 ELSE IF ~sh.val
                 THEN /\ call' = [call EXCEPT ![c] = [seen EXCEPT !.pc = "returned"]]
                      /\ UNCHANGED tasks
                 ELSE IF pool[self.executor].shutdown
                 THEN /\ call' = [call EXCEPT ![c] =
                                     [seen EXCEPT !.pc = "raised", !.exc = "RuntimeError"]]
                      /\ UNCHANGED tasks
                 ELSE /\ tasks' = [tasks EXCEPT ![c] =
                                      [state |-> "queued", pool |-> self.executor,
                                       body |-> SubmittedBody(response),
                                       level |-> SubmittedLevel(self),
                                       result |-> <<>>]]
                      /\ call' = [call EXCEPT ![c] =
                                     [seen EXCEPT !.pc = "compressing",
                                                  !.submitted = TRUE]]

\* The route handler returns to the innermost middleware of the chain.
HandlerReturns(c, result) ==
    /\ call[c].pc = "pending"
    /\ Proceed(c, call[c].lvl, result)
    /\ UNCHANGED <<class_handled_types, mw, pool, orphans, middlewares>>

\* A middleware returned its response to the middleware that awaits it.
OuterProceeds(c) ==
    /\ call[c].pc = "returned"
    /\ call[c].lvl > 1
    /\ Proceed(c, call[c].lvl - 1, call[c].response)
    /\ UNCHANGED <<class_handled_types, mw, pool, orphans, middlewares>>

\* ---------------------------------------------------------------- workers

\* A worker thread takes a queued task.
WorkerStart(c) ==
    /\ tasks[c].state = "queued"
    /\ tasks' = [tasks EXCEPT ![c].state = "running"]
    /\ UNCHANGED <<class_handled_types, mw, pool, orphans, middlewares, call>>

\* gzip.compress(body, level) ends on the worker: with the compressed bytes,
\* or with zlib's error for a level it does not know.
WorkerFinish(c) ==
    /\ tasks[c].state = "running"
    /\ tasks' = [tasks EXCEPT ![c] =
                    IF ValidLevel(tasks[c].level)
                    THEN [@ EXCEPT !.state = "done",
                                   !.result = GzipCompress(tasks[c].body, tasks[c].level)]
                    ELSE [@ EXCEPT !.state = "failed"]]
    /\ UNCHANGED <<class_handled_types, mw, pool, orphans, middlewares, call>>

\* A compression nobody awaits any more ends on its worker; what it computed
\* is read by no one.
OrphanFinish(p) ==
    /\ orphans[p] > 0
    /\ orphans' = [orphans EXCEPT ![p] = @ - 1]
    /\ UNCHANGED <<class_handled_types, mw, pool, tasks, middlewares, call>>

\* A defect: the content is replaced and the header forgotten.
RewriteResponseContentOnly(response, compressed_body) ==
    with_content(response, Content(response.content.type, B(compressed_body)))

\* A defect: the body is assigned in place, not through with_content.
RewriteResponseInPlace(response, compressed_body) ==
    add_header([response EXCEPT !.content.body = B(compressed_body)],
               ContentEncoding, Gzip)

\* A defect: content-encoding is set, replacing what was declared.
RewriteResponseReplacing(response, compressed_body) ==
    set_header(with_content(response,
                            Content(response.content.type, B(compressed_body))),
               ContentEncoding, Gzip)

\* A defect: the new content is built without the content-type.
RewriteResponseUntyped(response, compressed_body) ==
    add_header(with_content(response, Content(None, B(compressed_body))),
               ContentEncoding, Gzip)

\* A defect: the header is added first, the content replaced after it.
RewriteResponseHeaderFirst(response, compressed_body) ==
    with_content(add_header(response, ContentEncoding, Gzip),
                 Content(response.content.type, B(compressed_body)))

\* The header rewriter, lines 136-142: the content replaced by one of the
\* same type around the compressed body, then content-encoding added.
RewriteResponse(response, compressed_body) ==
    add_header(with_content(response,
                            Content(response.content.type, B(compressed_body))),
               ContentEncoding, Gzip)

\* A defect: a failed compression is passed over and the handler's response
\* returned as it is.
ResumeSwallowing(c) ==
    /\ call[c].pc = "compressing"
    /\ tasks[c].state \in {"done", "failed", "cancelled"}
    /\ call' = [call EXCEPT ![c] =
          CASE tasks[c].state = "done" ->
                 [@ EXCEPT !.pc = "returned",
                           !.response = RewriteResponse(@, tasks[c].result)]
            [] tasks[c].state = "failed" ->
                 [@ EXCEPT !.pc = "returned"]
            [] tasks[c].state = "cancelled" ->
                 [@ EXCEPT !.pc = "raised", !.exc = "CancelledError"]]
    /\ tasks' = [tasks EXCEPT ![c] = NoTask]
    /\ UNCHANGED <<class_handled_types, mw, pool, orphans, middlewares>>

\* A defect: the compressed bytes are kept on the instance, so a frame is
\* resumed with the bytes of whichever compression ended.
ResumeCrossed(c) ==
    /\ call[c].pc = "compressing"
    /\ tasks[c].state \in {"done", "failed", "cancelled"}
    /\ \E d \in Slots :
          /\ tasks[c].state = "done" => tasks[d].state = "done"
          /\ call' = [call EXCEPT ![c] =
                CASE tasks[c].state = "done" ->
                       [@ EXCEPT !.pc = "returned",
                                 !.response = RewriteResponse(@, tasks[d].result)]
                  [] tasks[c].state = "failed" ->
                       [@ EXCEPT !.pc = "raised", !.exc = "zlib.error"]
                  [] tasks[c].state = "cancelled" ->
                       [@ EXCEPT !.pc = "raised", !.exc = "CancelledError"]]
    /\ tasks' = [tasks EXCEPT ![c] = NoTask]
    /\ UNCHANGED <<class_handled_types, mw, pool, orphans, middlewares>>

\* A defect: only a compression that succeeded wakes the frame up.
ResumeOnSuccessOnly(c) ==
    /\ call[c].pc = "compressing"
    /\ tasks[c].state = "done"
    /\ call' = [call EXCEPT ![c] =
                   [@ EXCEPT !.pc = "returned",
                             !.response = RewriteResponse(@, tasks[c].result)]]
    /\ tasks' = [tasks EXCEPT ![c] = NoTask]
    /\ UNCHANGED <<class_handled_types, mw, pool, orphans, middlewares>>

\* The loop resumes __call__ with the outcome of its future.
Resume(c) ==
    /\ call[c].pc = "compressing"
    /\ tasks[c].state \in {"done", "failed", "cancelled"}
    /\ call' = [call EXCEPT ![c] =
          CASE tasks[c].state = "done" ->
                 [@ EXCEPT !.pc = "returned",
                           !.response = RewriteResponse(@, tasks[c].result)]
            [] tasks[c].state = "failed" ->
                 [@ EXCEPT !.pc = "raised", !.exc = "zlib.error"]
            [] tasks[c].state = "cancelled" ->
                 [@ EXCEPT !.pc = "raised", !.exc = "CancelledError"]]
    /\ tasks' = [tasks EXCEPT ![c] = NoTask]
    /\ UNCHANGED <<class_handled_types, mw, pool, orphans, middlewares>>

\* A defect: the await raises CancelledError but the future is not given up:
\* a queued compression stays in the executor's queue.
CancelKeepsTask(c) ==
    /\ InFlight(c)
    /\ call' = [call EXCEPT ![c] = [@ EXCEPT !.pc = "raised", !.exc = "CancelledError"]]
    /\ UNCHANGED <<class_handled_types, mw, pool, tasks, orphans, middlewares>>

\* The request's task is cancelled while __call__ is suspended: the await
\* raises CancelledError and the future is given up; a compression already
\* running is left to its worker.
Cancel(c) ==
    /\ InFlight(c)
    /\ call' = [call EXCEPT ![c] = [@ EXCEPT !.pc = "raised", !.exc = "CancelledError"]]
    /\ tasks' = [tasks EXCEPT ![c] = NoTask]
    /\ IF tasks[c].state = "running"
       THEN /\ OrphanCount < MaxOrphans
            /\ orphans' = [orphans EXCEPT ![tasks[c].pool] = @ + 1]
       ELSE UNCHANGED orphans
    /\ UNCHANGED <<class_handled_types, mw, pool, middlewares>>

\* The chain's caller has the outcome; the slot is free again.
Release(c) ==
    /\ \/ call[c].pc = "raised"
       \/ call[c].pc = "returned" /\ call[c].lvl = 1
    /\ call' = [call EXCEPT ![c] = IdleCall]
    /\ UNCHANGED <<class_handled_types, mw, pool, tasks, orphans, middlewares>>

\* ----------------------------------------------------------- specifications

\* Requests are served one at a time.
SerialCallStart(c, chain, request) == ~Serving /\ CallStart(c, chain, request)

\* The life of the middlewares of an application: what is constructed,
\* registered, called and disposed of.  The requests are the two that decide
\* differently, the results one that is compressed and one without content.
LifeRequests ==
    { [headers |-> [t |-> "Headers", v |-> << <<AcceptEncodingTitle, GzipDeflate>> >>]],
      [headers |-> None] }

LifeResults ==
    { Response(<<>>, Content(B(ApplicationJson), B([k \in 1..MaxBody |-> 0]))),
      Response(<<>>, None) }

Next ==
    \/ \E i \in Instances, ms \in MinSizes, ex \in ExecutorArgs :
          Construct(i, ms, DefaultCompLevel, None, ex)
    \/ \E i \in Instances : UseGzipCompression(i)
    \/ \E i \in Instances : UseGzipCompressionDefault(i)
    \/ \E i \in Instances : Dispose(i)
    \/ AppDropped
    \/ \E cf \in BOOLEAN : OwnerShutdown(cf)
    \/ \E c \in Slots, ch \in Chains, r \in LifeRequests : SerialCallStart(c, ch, r)
    \/ \E c \in Slots, hr \in LifeResults : HandlerReturns(c, hr)
    \/ \E c \in Slots : OuterProceeds(c)
    \/ \E c \in Slots : WorkerStart(c)
    \/ \E c \in Slots : WorkerFinish(c)
    \/ \E p \in Pools : OrphanFinish(p)
    \/ \E c \in Slots : Resume(c)
    \/ \E c \in Slots : Cancel(c)
    \/ \E c \in Slots : Release(c)

Spec == Init /\ [][Next]_vars

\* One middleware, constructed with any of the arguments and registered once
\* or more, serving every request and every handler result.
InitCall ==
    /\ class_handled_types = DefaultHandledTypes
    /\ \E ms \in MinSizes, cl \in CompLevels, ht \in HandledTypeArgs, ex \in ExecutorArgs :
          /\ mw = [i \in Instances |->
                     IF i = "m1" THEN NewInstance(i, ms, cl, ht, ex) ELSE NoInstance]
          /\ pool = PoolsAfterInit(InitPools, "m1", ex)
    /\ tasks = [c \in Slots |-> NoTask]
    /\ orphans = [p \in Pools |-> 0]
    /\ \E n \in 1..MaxChain : middlewares = [k \in 1..n |-> "m1"]
    /\ call = [c \in Slots |-> IdleCall]

NextCall ==
    \/ \E cf \in BOOLEAN : OwnerShutdown(cf)
    \/ \E c \in Slots, r \in Requests : SerialCallStart(c, middlewares, r)
    \/ \E c \in Slots, hr \in HandlerResults : HandlerReturns(c, hr)
    \/ \E c \in Slots : OuterProceeds(c)
    \/ \E c \in Slots : WorkerStart(c)
    \/ \E c \in Slots : WorkerFinish(c)
    \/ \E p \in Pools : OrphanFinish(p)
    \/ \E c \in Slots : Resume(c)
    \/ \E c \in Slots : Cancel(c)
    \/ \E c \in Slots : Release(c)

SpecCall == InitCall /\ [][NextCall]_vars

\* Instances constructed with the default types or with a list of their own,
\* customized in place by the application, and disposed of.
Png == <<"p", "n", "g">>

NextTypes ==
    \/ \E i \in Instances, ms \in MinSizes, ht \in HandledTypeArgs, ex \in ExecutorArgs :
          Construct(i, ms, DefaultCompLevel, ht, ex)
    \/ \E i \in Instances : UseGzipCompressionDefault(i)
    \/ \E i \in Instances : AppendHandledType(i, B(Png))
    \/ AppDropped
    \/ \E i \in Instances : Dispose(i)

SpecTypes == Init /\ [][NextTypes]_vars

\* One middleware registered once, serving requests that overlap: a request
\* enters while others are suspended, and the workers end in any order.  The
\* handlers' bodies differ from request to request.
ConcResults ==
    { Response(<<>>, Content(B(ApplicationJson), B([k \in 1..MaxBody |-> v]))) :
          v \in {0, 1} }
    \cup { Response(<< <<ETag, EntityTag>> >>, Content(B(ImagePng), B(<<0>>))) }

InitConc ==
    /\ class_handled_types = DefaultHandledTypes
    /\ \E ms \in MinSizes, cl \in CompLevels, ex \in ExecutorArgs :
          /\ mw = [i \in Instances |->
                     IF i = "m1" THEN NewInstance(i, ms, cl, None, ex) ELSE NoInstance]
          /\ pool = PoolsAfterInit(InitPools, "m1", ex)
    /\ tasks = [c \in Slots |-> NoTask]
    /\ orphans = [p \in Pools |-> 0]
    /\ middlewares = <<"m1">>
    /\ call = [c \in Slots |-> IdleCall]

NextConc ==
    \/ \E c \in Slots, r \in LifeRequests : CallStart(c, middlewares, r)
    \/ \E c \in Slots, hr \in ConcResults : HandlerReturns(c, hr)
    \/ \E c \in Slots : WorkerStart(c)
    \/ \E c \in Slots : WorkerFinish(c)
    \/ \E p \in Pools : OrphanFinish(p)
    \/ \E c \in Slots : Resume(c)
    \/ \E c \in Slots : Cancel(c)
    \/ \E c \in Slots : Release(c)

SpecConc == InitConc /\ [][NextConc]_vars

\* Overlapping requests while the owner of the executor may shut it down,
\* under the scheduling the program runs with: a handler that is awaited
\* returns, a worker takes a queued task and ends the one it runs, and the
\* loop resumes a coroutine whose future is settled.  Cancellations, new
\* requests and shutdowns may or may not come.  The handlers return bodies
\* that are compressed, or no content.
LiveResults ==
    { Response(<<>>, Content(B(ApplicationJson), B([k \in 1..MaxBody |-> v]))) :
          v \in {0, 1} }
    \cup { Response(<<>>, None) }

NextLive ==
    \/ \E c \in Slots, r \in LifeRequests : CallStart(c, middlewares, r)
    \/ \E c \in Slots, hr \in LiveResults : HandlerReturns(c, hr)
    \/ \E c \in Slots : WorkerStart(c)
    \/ \E c \in Slots : WorkerFinish(c)
    \/ \E p \in Pools : OrphanFinish(p)
    \/ \E c \in Slots : Resume(c)
    \/ \E c \in Slots : Cancel(c)
    \/ \E c \in Slots : Release(c)
    \/ \E cf \in BOOLEAN : OwnerShutdown(cf)

\* The step that carries invocation c forward; at most one of the four can
\* be taken at a time.
Advance(c) ==
    \/ \E hr \in LiveResults : HandlerReturns(c, hr)
    \/ WorkerStart(c)
    \/ WorkerFinish(c)
    \/ Resume(c)

Fairness == \A c \in Slots : WF_vars(Advance(c))

SpecLive == InitConc /\ [][NextLive]_vars /\ Fairness

\* ------------------------------------------------------------ claims: terms

\* The middleware whose frame of invocation c is the current one.
FrameSelf(c) == mw[call[c].chain[call[c].lvl]]

\* The frame has its handler's result: it is past `await handler(request)`.
\* (A frame cancelled while it awaited the handler never had one.)
Received(c) ==
    \/ call[c].pc \in {"compressing", "returned"}
    \/ call[c].pc = "raised" /\ (call[c].exc # "CancelledError" \/ call[c].decided)

\* The request's accept-encoding header holds the bytes "gzip".
AcceptsGzip(request) ==
    /\ ~IsNone(request.headers)
    /\ \E k \in 1..Len(request.headers.v) :
          /\ SameName(request.headers.v[k][1], AcceptEncoding)
          /\ \A j \in 1..(k - 1) : ~SameName(request.headers.v[j][1], AcceptEncoding)
          /\ IsSubSeq(Gzip, request.headers.v[k][2])

HasBody(result) ==
    ~IsNone(result) /\ ~IsNone(result.content) /\ ~IsNone(result.content.body)

\* The handler's body is longer than the middleware's min_size.
BodyOver(self, result) ==
    HasBody(result) /\ Len(result.content.body.v) > self.min_size

\* The handler's content-type, lower-cased, holds one of the handled types.
TypeEligible(self, result) ==
    /\ ~IsNone(result) /\ ~IsNone(result.content) /\ ~IsNone(result.content.type)
    /\ \E k \in 1..Len(HandledTypes(self)) :
          /\ HandledTypes(self)[k].t = "bytes"
          /\ IsSubSeq(HandledTypes(self)[k].v, LowerSeq(result.content.type.v))

\* The frame returned the response its offloaded compression rewrote.
Compressed(c) == call[c].pc = "returned" /\ call[c].submitted

\* The response is what the handler produced: same content, same headers.
Untouched(c) == call[c].response = call[c].handled

\* The response went through the whole rewrite: a gzip body of the handler's
\* body, gzip as its last content-encoding, one content-length, of that body.
FullyRewritten(handled, response) ==
    /\ HasBody(handled) /\ HasBody(response)
    /\ response.content.body # handled.content.body
    /\ GzipDecompress(response.content.body.v) = handled.content.body.v
    /\ LET ce == get_all(response.headers, ContentEncoding)
       IN  ce # <<>> /\ ce[Len(ce)] = Gzip
    /\ get_all(response.headers, ContentLength)
          = << Decimal(Len(response.content.body.v)) >>

\* ------------------------------------------------------------------ claims

C4_EligibleIsCompressed ==
    \A c \in Slots :
        /\ Received(c)
        /\ AcceptsGzip(call[c].request)
        /\ BodyOver(FrameSelf(c), call[c].handled)
        /\ TypeEligible(FrameSelf(c), call[c].handled)
        => \/ call[c].pc = "compressing"
           \/ /\ call[c].pc = "raised"
              /\ call[c].exc \in {"RuntimeError", "zlib.error", "CancelledError"}
           \/ /\ Compressed(c)
              /\ call[c].response.content.body
                    = B(GzipCompress(call[c].handled.content.body.v,
                                     FrameSelf(c).comp_level))
              /\ GzipDecompress(call[c].response.content.body.v)
                    = call[c].handled.content.body.v

C4_Witness ==
    \E c \in Slots :
        /\ AcceptsGzip(call[c].request)
        /\ BodyOver(FrameSelf(c), call[c].handled)
        /\ TypeEligible(FrameSelf(c), call[c].handled)
        /\ Compressed(c)
        /\ Len(call[c].handled.content.body.v) = MaxBody
        /\ GzipDecompress(call[c].response.content.body.v)
              = call[c].handled.content.body.v

\* C5: a handler result without content, without a body, or with a body no
\* longer than min_size is never compressed, whatever its content-type and
\* whatever the request's accept-encoding: no task is submitted and the
\* response stays as the handler produced it.
C5_SmallBodyNeverCompressed ==
    \A c \in Slots :
        Received(c) /\ ~BodyOver(FrameSelf(c), call[c].handled) =>
            /\ ~call[c].submitted
            /\ tasks[c] = NoTask
            /\ Untouched(c)

C5_Witness ==
    \E c \in Slots :
        /\ call[c].pc = "returned"
        /\ AcceptsGzip(call[c].request)
        /\ TypeEligible(FrameSelf(c), call[c].handled)
        /\ HasBody(call[c].handled)
        /\ Len(call[c].handled.content.body.v) = FrameSelf(c).min_size
        /\ Untouched(c)

\* C6, as claimed: a request whose accept-encoding does not hold "gzip", or
\* that has no accept-encoding at all, gets the handler's response back
\* unchanged and uncompressed, whatever the body and the content-type.
C6_NoGzipReturnsUnchanged ==
    \A c \in Slots :
        Received(c) /\ ~AcceptsGzip(call[c].request) =>
            /\ call[c].pc = "returned"
            /\ ~call[c].submitted
            /\ Untouched(c)

\* C7: a handler result whose content-type is absent or, lower-cased, holds
\* none of the handled types is never compressed; and the test is for a
\* substring: with the default list "application/json" passes it through
\* "json" (so a big enough body of a gzip request goes to the executor) while
\* "image/png" is returned as it is.
C7_TypeGate ==
    \A c \in Slots :
        Received(c) =>
            /\ ~TypeEligible(FrameSelf(c), call[c].handled) =>
                  ~call[c].submitted /\ tasks[c] = NoTask /\ Untouched(c)
            /\ /\ IsNone(FrameSelf(c).handled_types)
               /\ AcceptsGzip(call[c].request)
               /\ BodyOver(FrameSelf(c), call[c].handled)
               => /\ call[c].handled.content.type = B(ApplicationJson) =>
                        call[c].submitted \/ call[c].exc = "RuntimeError"
                  /\ call[c].handled.content.type = B(ImagePng) =>
                        call[c].pc = "returned" /\ Untouched(c)

C7_Witness ==
    \E c \in Slots :
        /\ call[c].pc = "returned"
        /\ IsNone(FrameSelf(c).handled_types)
        /\ AcceptsGzip(call[c].request)
        /\ BodyOver(FrameSelf(c), call[c].handled)
        /\ call[c].handled.content.type = B(ImagePng)
        /\ Untouched(c)

\* C8, as claimed: the decision never ends in an error: for the request and
\* the response of every frame that came to decide, should_handle yields a
\* boolean.
C8_DecisionNeverRaises ==
    \A c \in Slots :
        Occupied(c) /\ call[c].decided =>
            /\ should_handle(FrameSelf(c), call[c].request, call[c].handled).exc = "none"
            /\ call[c].exc # "TypeError"

\* C9: when the handler's result is None or has no content, __call__ returns
\* it untouched at once: no decision is taken, the request's headers are not
\* read, nothing is submitted to the executor.
C9_ShortCircuit ==
    \A c \in Slots :
        /\ Received(c)
        /\ (IsNone(call[c].handled) \/ IsNone(call[c].handled.content))
        =>
            /\ call[c].pc = "returned"
            /\ Untouched(c)
            /\ ~call[c].decided
            /\ ~call[c].read_header
            /\ ~call[c].submitted
            /\ tasks[c] = NoTask

C9_Witness ==
    \E c \in Slots :
        /\ call[c].pc = "returned"
        /\ call[c].handled = Response(<<>>, None)
        /\ ~IsNone(call[c].request.headers)
        /\ ~AcceptsGzip(call[c].request)
        /\ Untouched(c)
        /\ ~call[c].decided

\* C10: an executor given to the constructor is never shut down by the
\* middleware and stays the executor of the instance it was given to: after
\* any construction, request and disposal, the external executor is shut down
\* only if its owner did it, and the middleware shuts down none but the pools
\* it created.
C10_ExternalExecutorLeftAlone ==
    /\ pool[External].by # "middleware"
    /\ pool[External].shutdown => pool[External].by = "owner"
    /\ \A p \in Pools : pool[p].by = "middleware" => \E i \in Instances : p = OwnPool(i)
    /\ \A i \in Instances :
          mw[i].alive /\ ~mw[i].shutdown_executor => mw[i].executor = External

C10_Witness ==
    \E i, j \in Instances :
        /\ ~mw[i].alive /\ mw[i].executor = External
        /\ mw[j].alive /\ mw[j].executor = External
        /\ ~pool[External].shutdown
        /\ \E c \in Slots : tasks[c].state = "running" /\ tasks[c].pool = External

\* An instance that created its own pool and was disposed of since.
DisposedOwner(i) == ~mw[i].alive /\ mw[i].executor = OwnPool(i)

\* C11, as claimed: an instance given no executor creates a pool of its own,
\* and once the instance is disposed of that pool is torn down with every
\* task it held aborted, running ones included: nothing is left in it.
C11_DisposalAbortsAll ==
    \A i \in Instances :
        /\ mw[i].alive /\ mw[i].shutdown_executor =>
               mw[i].executor = OwnPool(i) /\ pool[OwnPool(i)].created
        /\ DisposedOwner(i) =>
               pool[OwnPool(i)].shutdown /\ ~PoolHasTasks(OwnPool(i))

\* C11, amended: an instance given no executor creates a pool of its own at
\* construction, which no other instance holds and which stays open while
\* the instance lives; once the instance is disposed of, the pool is shut
\* down by the middleware, without waiting, and no queued task is left in it;
\* a compression already running is not aborted, it may still be running.
C11_OwnedPoolTornDown ==
    \A i \in Instances :
        /\ mw[i].alive /\ mw[i].shutdown_executor =>
               /\ mw[i].executor = OwnPool(i)
               /\ pool[OwnPool(i)].created /\ ~pool[OwnPool(i)].shutdown
               /\ \A j \in Instances \ {i} :
                      mw[j].alive => mw[j].executor # mw[i].executor
        /\ DisposedOwner(i) =>
               /\ pool[OwnPool(i)].shutdown /\ pool[OwnPool(i)].by = "middleware"
               /\ \A c \in Slots :
                      tasks[c].pool = OwnPool(i) => tasks[c].state = "none"

C11_Witness ==
    \E i, j \in Instances :
        /\ i # j
        /\ DisposedOwner(i)
        /\ pool[OwnPool(i)].shutdown
        /\ orphans[OwnPool(i)] > 0
        /\ mw[j].alive /\ mw[j].shutdown_executor /\ ~pool[OwnPool(j)].shutdown

\* The frame's call of run_in_executor or its compression ended in an error.
OffloadFailed(c) ==
    call[c].pc = "raised" /\ call[c].exc \in {"RuntimeError", "zlib.error"}

\* C12: a rejected submission and a failed compression come out of __call__
\* as an error.  The step that resumes a frame whose compression failed
\* raises; the step in which a frame decides to compress while its executor
\* is shut down raises RuntimeError and leaves no task; in both the response
\* is the handler's, untouched; and a frame that raised never returns a
\* response afterwards: the error reaches the chain's caller.
C12_FailurePropagates ==
    [][\A c \in Slots :
          /\ call[c].pc = "compressing" /\ tasks[c].state = "failed"
              /\ call'[c] # call[c]
              => /\ call'[c].pc = "raised"
                 /\ call'[c].exc \in {"zlib.error", "CancelledError"}
                 /\ call'[c].response = call[c].handled
          /\ call[c].pc \in {"pending", "returned"} /\ call'[c].decided
              /\ call'[c] # call[c]
              /\ should_handle(FrameSelf(c)', call'[c].request, call'[c].handled)
                     = [exc |-> "none", val |-> TRUE]
              /\ pool[FrameSelf(c)'.executor].shutdown
              => /\ call'[c].pc = "raised" /\ call'[c].exc = "RuntimeError"
                 /\ tasks'[c] = NoTask
                 /\ call'[c].response = call'[c].handled
          /\ OffloadFailed(c)
              => /\ Untouched(c)
                 /\ call'[c] \in {call[c], IdleCall}
      ]_vars

C12_Witness ==
    \E c \in Slots :
        /\ call[c].pc = "raised" /\ call[c].exc = "zlib.error"
        /\ call[c].submitted
        /\ AcceptsGzip(call[c].request)
        /\ Untouched(c)
        /\ get_all(call[c].response.headers, ContentEncoding) = <<>>

\* A rejected submission: the executor was shut down before the frame decided.
C12_WitnessRejected ==
    \E c \in Slots :
        /\ call[c].pc = "raised" /\ call[c].exc = "RuntimeError"
        /\ ~call[c].submitted
        /\ Untouched(c)

\* The headers other than content-encoding and content-length, in order.
OtherHeaders(headers) ==
    remove_header(remove_header(headers, ContentEncoding), ContentLength)

\* C13: compression changes the body, content-encoding and content-length
\* and nothing else: the returned response declares the content-type of the
\* handler's response, letter for letter, its other headers are the handler's
\* in the same order, and apart from headers and content the response is the
\* same.
C13_FramePreserved ==
    \A c \in Slots :
        Compressed(c) =>
            /\ call[c].response.content.type = call[c].handled.content.type
            /\ OtherHeaders(call[c].response.headers)
                  = OtherHeaders(call[c].handled.headers)
            /\ [call[c].response EXCEPT !.headers = <<>>, !.content = None]
                  = [call[c].handled EXCEPT !.headers = <<>>, !.content = None]
            /\ [call[c].response.content EXCEPT !.body = None]
                  = [call[c].handled.content EXCEPT !.body = None]

C13_Witness ==
    \E c \in Slots :
        /\ Compressed(c)
        /\ call[c].handled.content.type = B(TextHtmlUpper)
        /\ call[c].response.content.type = B(TextHtmlUpper)
        /\ OtherHeaders(call[c].handled.headers) = << <<ETag, EntityTag>> >>
        /\ OtherHeaders(call[c].response.headers) = << <<ETag, EntityTag>> >>
        /\ call[c].response.content.body # call[c].handled.content.body

\* The content-type holds one of the configured entries when letter case is
\* disregarded on both sides.
TypeEligibleAnyCase(self, result) ==
    /\ ~IsNone(result) /\ ~IsNone(result.content) /\ ~IsNone(result.content.type)
    /\ \E k \in 1..Len(HandledTypes(self)) :
          /\ HandledTypes(self)[k].t \in {"bytes", "str"}
          /\ IsSubSeq(LowerSeq(HandledTypes(self)[k].v),
                      LowerSeq(result.content.type.v))

\* C14, as claimed: entries given as text or bytes in any letter case are
\* brought to the convention of the comparison, so that a content-type
\* holding a configured entry in any letter case passes the type gate: a big
\* enough body of a gzip request with such a type goes to the executor.
C14_EntriesNormalizedToLowerBytes ==
    \A c \in Slots :
        /\ Received(c)
        /\ AcceptsGzip(call[c].request)
        /\ BodyOver(FrameSelf(c), call[c].handled)
        /\ TypeEligibleAnyCase(FrameSelf(c), call[c].handled)
        /\ \A k \in 1..Len(HandledTypes(FrameSelf(c))) :
               HandledTypes(FrameSelf(c))[k].t \in {"bytes", "str"}
        => call[c].submitted \/ call[c].exc = "RuntimeError"

\* C15, as claimed: a handled-type entry that is neither text nor bytes makes
\* the construction fail, so no instance holds one and no request with a
\* well-formed accept-encoding ends in an error raised by the type gate.
C15_InvalidEntryFailsFast ==
    \A c \in Slots :
        Received(c) /\ AcceptsGzip(call[c].request) =>
            call[c].exc # "TypeError"

\* The frame is over: it returned to the chain's caller, or raised.
Terminal(c) ==
    \/ call[c].pc = "raised"
    \/ call[c].pc = "returned" /\ call[c].lvl = 1

\* C16: a frame of __call__ moves only from pending to a decision, from
\* there to its end or to compressing, and from compressing to rewritten or
\* to an error.  A task is submitted only by a frame that has just decided
\* to compress, which had none before: once per frame.  The response
\* changes in one kind of step only, the one that resumes a frame whose
\* compression succeeded, and there it is rewritten whole and the frame
\* returns at once, with content-encoding added after the content and its
\* length were replaced; every other step leaves the response as it is.
C16_Transitions ==
    [][\A c \in Slots :
        call'[c] # call[c] =>
          LET a == call[c]
              b == call'[c]
              enters == a.pc = "pending" \/ (a.pc = "returned" /\ a.lvl > 1)
          IN  \/ /\ a.pc = "idle" /\ b.pc = "pending"
                 /\ tasks'[c] = NoTask /\ ~b.decided /\ ~b.submitted
              \/ /\ enters /\ b.pc = "returned"
                 /\ b.lvl = (IF a.pc = "pending" THEN a.lvl ELSE a.lvl - 1)
                 /\ ~b.submitted /\ tasks'[c] = NoTask
                 /\ b.response = b.handled
                 /\ a.pc = "returned" => b.handled = a.response
              \/ /\ enters /\ b.pc = "compressing"
                 /\ b.lvl = (IF a.pc = "pending" THEN a.lvl ELSE a.lvl - 1)
                 /\ b.decided /\ b.submitted
                 /\ should_handle(FrameSelf(c)', b.request, b.handled)
                        = [exc |-> "none", val |-> TRUE]
                 /\ tasks[c] = NoTask /\ tasks'[c].state = "queued"
                 /\ b.response = b.handled
                 /\ a.pc = "returned" => b.handled = a.response
              \/ /\ a.pc = "compressing" /\ b.pc = "returned"
                 /\ tasks[c].state = "done" /\ tasks'[c] = NoTask
                 /\ b.lvl = a.lvl /\ b.handled = a.handled /\ a.response = a.handled
                 /\ b.response.content.body = B(tasks[c].result)
                 /\ FullyRewritten(a.handled, b.response)
                 /\ b.response.headers[Len(b.response.headers)]
                        = <<ContentEncoding, Gzip>>
              \/ /\ (enters \/ a.pc = "compressing") /\ b.pc = "raised"
                 /\ tasks'[c] = NoTask
                 /\ b.response = b.handled
                 /\ a.pc = "compressing" => b.response = a.response
              \/ /\ Terminal(c) /\ b = IdleCall
      ]_vars

C16_Witness ==
    \E c \in Slots :
        /\ Compressed(c)
        /\ call[c].decided
        /\ Len(call[c].chain) = 2 /\ call[c].lvl = 1
        /\ call[c].response.headers[Len(call[c].response.headers)]
              = <<ContentEncoding, Gzip>>
        /\ GzipDecompress(GzipDecompress(call[c].response.content.body.v)) # <<"error">>

\* The frame was cancelled after it had submitted its compression.
CancelledInFlight(c) ==
    call[c].pc = "raised" /\ call[c].exc = "CancelledError" /\ call[c].submitted

\* C17: when the request's task is cancelled while its compression is in
\* flight, the frame ends raising CancelledError with the handler's response
\* untouched and holds no future any more; a task still queued is taken out
\* of the executor, one already running is left to its worker; and from then
\* on the frame never returns a response and its response is never
\* rewritten, also when the worker finishes the abandoned compression.
C17_CancelledNeverReturns ==
    [][\A c \in Slots :
          /\ call[c].pc = "compressing" /\ call'[c].pc = "raised"
              /\ call'[c].exc = "CancelledError"
              => /\ call'[c].response = call[c].handled
                 /\ tasks'[c] = NoTask
                 /\ tasks[c].state # "running" => orphans' = orphans
                 /\ tasks[c].state = "running" =>
                        orphans' = [orphans EXCEPT ![tasks[c].pool] = @ + 1]
          /\ CancelledInFlight(c)
              => /\ Untouched(c)
                 /\ tasks[c] = NoTask
                 /\ call'[c] \in {call[c], IdleCall}
      ]_vars

C17_Witness ==
    \E c \in Slots :
        /\ CancelledInFlight(c)
        /\ Untouched(c)
        /\ orphans[FrameSelf(c).executor] > 0
        /\ AcceptsGzip(call[c].request)

\* What one frame yields when it runs with nothing else going on: the
\* handler's response as it is, an error, or the response rewritten around
\* the compression of its own body.
Alone(self, request, result) ==
    LET response == ensure_response(result)
    IN  IF ShortCircuit(response)
        THEN [pc |-> "returned", response |-> response]
        ELSE LET sh == should_handle(self, request, response)
             IN  IF sh.exc # "none" THEN [pc |-> "raised", response |-> response]
                 ELSE IF ~sh.val THEN [pc |-> "returned", response |-> response]
                 ELSE IF ~ValidLevel(self.comp_level)
                 THEN [pc |-> "raised", response |-> response]
                 ELSE [pc |-> "returned",
                       response |->
                           RewriteResponse(response,
                               GzipCompress(response.content.body.v, self.comp_level))]

\* C18: with requests overlapping on one instance and one executor, in every
\* interleaving and every order of completion, a frame that returns gives the
\* response it would give alone, built from its own handler's response and
\* the compression of its own body; a frame that raises another error than a
\* cancellation or a rejection would raise alone too; and no step changes
\* the instance's min_size, comp_level and handled_types or the class's list.
C18_Independent ==
    [][/\ mw' = mw
       /\ class_handled_types' = class_handled_types
       /\ \A c \in Slots :
             /\ call'[c].pc = "returned" =>
                    /\ Alone(FrameSelf(c)', call'[c].request, call'[c].handled).pc
                          = "returned"
                    /\ call'[c].response
                          = Alone(FrameSelf(c)', call'[c].request, call'[c].handled).response
             /\ call'[c].pc = "raised"
                 /\ call'[c].exc \notin {"CancelledError", "RuntimeError"} =>
                    Alone(FrameSelf(c)', call'[c].request, call'[c].handled).pc = "raised"
      ]_vars

C18_Witness ==
    \E c, d \in Slots :
        /\ c < d
        /\ call[c].pc = "compressing" /\ tasks[c].state = "done"
        /\ Compressed(d)
        /\ call[c].handled.content.body # call[d].handled.content.body
        /\ GzipDecompress(call[d].response.content.body.v)
              = call[d].handled.content.body.v
        /\ tasks[c].result # call[d].response.content.body.v

\* C19, as claimed: every instance has its own copy of the default list, so
\* no step, a customization of another instance in particular, changes the
\* list the class holds for instances constructed later, nor the handled
\* types seen by an instance the step did not touch.
C19_DefaultListNotShared ==
    [][/\ class_handled_types' = class_handled_types
       /\ \A j \in Instances :
             mw[j].alive /\ mw'[j] = mw[j] =>
                 HandledTypes(mw[j])' = HandledTypes(mw[j])
      ]_vars

\* C20: every invocation that is suspended, awaiting its handler or its
\* compression, eventually ends, returning a response or raising, whatever
\* the workers' outcome (result, error, cancellation by a shutdown) and also
\* when the executor is shut down while requests are in progress; and the
\* frame waits on a future exactly while it is compressing, its one
\* suspension of its own.
C20_EventuallyTerminal ==
    /\ \A c \in Slots : InFlight(c) ~> Terminal(c)
    /\ [](\A c \in Slots : call[c].pc = "compressing" <=> tasks[c].state # "none")

C20_Witness ==
    \E c, d \in Slots :
        /\ c # d
        /\ pool[External].shutdown
        /\ call[c].pc = "raised" /\ call[c].exc = "RuntimeError"
        /\ Compressed(d)

=============================================================================
